---- MODULE Spec2Model ----
(***************************************************************************)
(* Reversible cascading deletion of words/data_service.py (DataService):   *)
(* the four delete operations, the snapshot kept in the cache for one hour *)
(* and undo_deletion, over the tables of words/models.py.                  *)
(*                                                                         *)
(* Three parent/child families stand for the schema:                       *)
(*   FrenchWord/FrenchExample     the pair special-cased by DataService    *)
(*   SpanishWord/SpanishExample   a pair with no special handling (as the  *)
(*                                Italian, Russian and Japanese pairs)     *)
(*   MigrationBatch/MigrationItem a child with a required plain integer    *)
(*                                column whose name ends in _id (as        *)
(*                                LexemeGroup/LexemeGroupMember)           *)
(* Column names are abstract: "fk" is the ForeignKey field (french_word,   *)
(* spanish_word, batch), "fk_id" its attname, "val" a text column          *)
(* (noun_form, example_text, source_language), "xid" the plain integer     *)
(* column source_word_id, "created_at" the auto_now_add timestamp.         *)
(***************************************************************************)
EXTENDS Integers, Sequences, FiniteSets, TLC

\* ---------------------------------------------------------------- bounds
MaxId == 2        \* ids 1..MaxId of the rows of the initial database and of requests
MaxOps == 1       \* number of operation ids (uuid4) the delete operations may draw

\* ------------------------------------------------------ program constants
Retention == 3600 \* cache.set(..., 3600)
NULL == 0         \* Python None / SQL NULL in an integer position; falsy like None

VARIABLES db,      \* the rows of all tables
          nextId,  \* per table, the next value of the AutoField sequence
          cache,   \* django.core.cache: key -> [value, expires]
          nextOp,  \* the next fresh operation id (uuid.uuid4())
          now,     \* the clock, in seconds
          scope,   \* the family (by its child model) the requests name
          ret,     \* the last call of DataService and what it returned
          pre,     \* the database and the cache as they were before that call
          log,     \* the writes of that call, in the order the code issues them
          faulted, \* the database has raised a storage error
          calls    \* per concurrent caller, the call it has in flight or has made

vars == <<db, nextId, cache, nextOp, now, scope, ret, pre, log, faulted, calls>>

\* ---------------------------------------------------------------- schema
ParentModels == {"FrenchWord", "SpanishWord", "MigrationBatch"}
ChildModels == {"FrenchExample", "SpanishExample", "MigrationItem"}
Models == ParentModels \cup ChildModels

\* field.related_model of the ForeignKey of a child model
RelatedModel(m) ==
    CASE m = "FrenchExample" -> "FrenchWord"
      [] m = "SpanishExample" -> "SpanishWord"
      [] m = "MigrationItem" -> "MigrationBatch"

\* model._meta.fields, by abstract column name
MetaFields(m) ==
    IF m \in ParentModels THEN {"id", "val", "created_at"}
    ELSE IF m = "MigrationItem" THEN {"id", "fk", "val", "xid", "created_at"}
    ELSE {"id", "fk", "val", "created_at"}

\* str.endswith('_id') on the names the model knows: the attname of the
\* ForeignKey (french_word_id, ...) and the plain column source_word_id
EndsWithId(f) == f \in {"fk_id", "xid"}

\* hasattr(model_class, field_name)
HasAttr(m, f) == f \in MetaFields(m) \/ (f = "fk_id" /\ m \in ChildModels)

\* the value Field.get_default() gives a text column left out of the constructor
DefaultVal(m) == IF m \in ParentModels THEN "None" ELSE ""

\* DataService._get_related_models: the models with a ForeignKey to m
GetRelatedModels(m) == {c \in ChildModels : RelatedModel(c) = m}

\* DataService._get_parent_models: the (model, field) pairs m has ForeignKeys to
GetParentModels(m) == IF m \in ChildModels THEN {<<RelatedModel(m), "fk">>} ELSE {}

\* ------------------------------------------------------------------ rows
Row(m, id, fk, val, xid, ca) ==
    [model |-> m, id |-> id, fk |-> fk, val |-> val, xid |-> xid, created_at |-> ca]

Objects(dbx, m) == {r \in dbx : r.model = m}
Exists(dbx, m, id) == \E r \in dbx : r.model = m /\ r.id = id
Get(dbx, m, id) == CHOOSE r \in dbx : r.model = m /\ r.id = id
\* related_model.objects.filter(<fk>_id__in=ids)
FilterFkIn(dbx, m, ids) == {r \in dbx : r.model = m /\ r.fk \in ids}

\* a queryset is iterated in id order
RECURSIVE OrderById(_)
OrderById(S) ==
    IF S = {} THEN <<>>
    ELSE LET r == CHOOSE x \in S : \A y \in S : x.id <= y.id
         IN <<r>> \o OrderById(S \ {r})

Range(s) == {s[i] : i \in DOMAIN s}

\* datetime.isoformat() and the parsing DateTimeField.to_python does on save
Iso(t) == <<"iso", t>>
NoTime == <<"none", 0>>
IsIso(v) == v[1] = "iso"
ParseIso(v) == v[2]

\* DataService._serialize_model_instance: every field but id, the fields whose
\* name ends in _id and the fields whose value is a model instance (the
\* ForeignKey); datetimes as ISO text; the id is added last
SerializedFields(m) ==
    {f \in MetaFields(m) : f # "id" /\ ~EndsWithId(f) /\ f # "fk"}

SerializeModelInstance(r) ==
    [f \in SerializedFields(r.model) \cup {"id"} |->
        IF f = "created_at" THEN Iso(r.created_at) ELSE r[f]]

\* dict.pop(key, None): the dict without the key
Pop(d, k) == [f \in DOMAIN d \ {k} |-> d[f]]
GetOr(d, k, dflt) == IF k \in DOMAIN d THEN d[k] ELSE dflt

\* model_class(**data): the unsaved instance; what data does not give is
\* the field's default
Construct(m, data) ==
    Row(m, GetOr(data, "id", NULL), NULL, GetOr(data, "val", DefaultVal(m)),
        GetOr(data, "xid", NULL), GetOr(data, "created_at", NoTime))

\* A value of a column type DjangoJSONEncoder.default hands to the base class,
\* which raises TypeError (a Decimal, a date, bytes). No column of
\* words/models.py has such a type; model_class is a parameter of DataService,
\* and the value stands for a table that has one
Unencodable == "<Decimal>"

AllEncodable(rows) == \A i \in DOMAIN rows : GetOr(rows[i], "val", "") # Unencodable

\* json.dumps(deleted_data, cls=DjangoJSONEncoder) raises no TypeError: no
\* serialized row of the snapshot holds such a value
Encodable(d) ==
    /\ GetOr(GetOr(d, "data", <<>>), "val", "") # Unencodable
    /\ AllEncodable(GetOr(d, "instances", <<>>))
    /\ \A c \in DOMAIN GetOr(d, "related_data", <<>>) :
          AllEncodable(d["related_data"][c].instances)
    /\ \A q \in DOMAIN GetOr(d, "parent_data", <<>>) :
          GetOr(GetOr(d["parent_data"][q], "data", <<>>), "val", "") # Unencodable
    /\ "parent_to_delete" \in DOMAIN d =>
          GetOr(d["parent_to_delete"].data, "val", "") # Unencodable
    /\ \A i \in DOMAIN GetOr(d, "manually_deleted_examples", <<>>) :
          GetOr(d["manually_deleted_examples"][i].data, "val", "") # Unencodable

\* json.dumps(..., cls=DjangoJSONEncoder) / json.loads: an encodable snapshot
\* holds only text, integers, None, lists and dicts with text keys, which JSON
\* returns unchanged; the document is kept as text tagged "json"
JsonDumps(d) == <<"json", d>>
JsonLoads(s) == s[2]

\* ----------------------------------------------------------------- cache
DeletionKey(op) == <<"deletion", op>>
NoEntry == [value |-> <<"none", [model |-> ""]>>, expires |-> NULL]

\* mutant: a cache that never expires its entries
CacheHasForever(c, t, key) == key \in DOMAIN c

\* cache.get(key): None when the key is absent or its timeout has passed
CacheHas(c, t, key) == key \in DOMAIN c /\ c[key].expires > t
CacheGet(c, t, key) == IF CacheHas(c, t, key) THEN c[key] ELSE NoEntry
\* mutant: a cache that keeps one entry, the last one set
CacheSetAlone(c, t, key, value, timeout) ==
    [k \in {key} |-> [value |-> value, expires |-> t + timeout]]

\* cache.set(key, value, timeout)
CacheSet(c, t, key, value, timeout) ==
    [k \in DOMAIN c \cup {key} |->
        IF k = key THEN [value |-> value, expires |-> t + timeout] ELSE c[k]]
\* mutant: undo_deletion without its cache.delete
CacheDeleteNot(c, key) == c

\* cache.delete(key)
CacheDelete(c, key) == [k \in DOMAIN c \ {key} |-> c[k]]

\* ------------------------------------------------------- database writes
Ev(e, m, id) == [ev |-> e, model |-> m, id |-> id]

\* mutant: the foreign keys declared without on_delete=CASCADE
CascadeRowsNone(dbx, m, ids) == {}

\* instance.delete() / queryset.delete(): Django's collector removes the rows
\* of the child models that reference the rows (on_delete=CASCADE), then the
\* rows themselves
CascadeRows(dbx, m, ids) ==
    UNION {FilterFkIn(dbx, c, ids) : c \in GetRelatedModels(m)}

DeleteRows(dbx, m, ids) ==
    (dbx \ CascadeRows(dbx, m, ids)) \ {r \in dbx : r.model = m /\ r.id \in ids}

DeleteEvents(dbx, m, ids) ==
    LET kids == OrderById(CascadeRows(dbx, m, ids))
        own == OrderById({r \in dbx : r.model = m /\ r.id \in ids})
    IN [i \in 1..Len(kids) |-> Ev("delete", kids[i].model, kids[i].id)]
       \o [i \in 1..Len(own) |-> Ev("delete", own[i].model, own[i].id)]

\* The state a transaction threads through its writes. failed: an exception
\* (IntegrityError) was raised and propagates; last: the id of the row saved
\* last. fault: the database raises a storage error in the fault-th save from
\* here (0: in none), hit: it has done so; aborts: an error of a statement
\* aborts the transaction in the database (PostgreSQL) rather than the
\* statement alone (SQLite), aborted: that has happened and was not
\* propagated, so that the commit of the atomic block rolls back
Tx(dbx, nid) ==
    [db |-> dbx, nextId |-> nid, log |-> <<>>, count |-> 0, examples |-> 0,
     failed |-> FALSE, last |-> NULL,
     fault |-> 0, hit |-> FALSE, aborts |-> FALSE, aborted |-> FALSE]

\* the write of a row by Model.save(), with the foreign key the row holds
SaveEv(inst, id) == [ev |-> "save", model |-> inst.model, id |-> id, fk |-> inst.fk]

\* Model.save() raises (IntegrityError, OperationalError)
Raise(st, inst) ==
    [st EXCEPT !.failed = TRUE, !.fault = 0,
               !.log = Append(@, Ev("error", inst.model, inst.id))]

\* a save that did not raise is one save less before the storage error
Counted(st) == [st EXCEPT !.fault = IF @ > 1 THEN @ - 1 ELSE 0]

\* NOT NULL columns without a default: the ForeignKey of a child model and
\* MigrationItem.source_word_id
MissingRequired(inst) ==
    \/ inst.model \in ChildModels /\ inst.fk = NULL
    \/ inst.model = "MigrationItem" /\ inst.xid = NULL

\* Model.save() of an instance: with an id that exists the row is UPDATEd (the
\* ISO text of created_at is parsed back), otherwise it is INSERTed with the
\* given id or the next id of the sequence, and auto_now_add sets created_at
\* to the current time
Save(st, inst, t) ==
    IF st.failed THEN st
    ELSE IF st.fault = 1 THEN Raise([st EXCEPT !.hit = TRUE], inst)
    ELSE IF MissingRequired(inst) THEN Raise(st, inst)
    ELSE IF inst.id # NULL /\ Exists(st.db, inst.model, inst.id)
    THEN IF ~IsIso(inst.created_at) THEN Raise(st, inst)
         ELSE LET old == Get(st.db, inst.model, inst.id)
                  new == [inst EXCEPT !.created_at = ParseIso(inst.created_at)]
              IN Counted([st EXCEPT !.db = (st.db \ {old}) \cup {new},
                                    !.log = Append(st.log, SaveEv(inst, inst.id)),
                                    !.last = inst.id])
    ELSE LET id == IF inst.id # NULL THEN inst.id ELSE st.nextId[inst.model]
             new == [inst EXCEPT !.id = id, !.created_at = t]
         IN Counted([st EXCEPT !.db = st.db \cup {new},
                               !.nextId = IF inst.id # NULL THEN st.nextId
                                          ELSE [st.nextId EXCEPT ![inst.model] = id + 1],
                               !.log = Append(st.log, SaveEv(inst, id)),
                               !.last = id])

\* ------------------------------------------------------ delete operations
\* What a call returns, with the state it leaves
Result(ok, err, op, count, dbx, c, nop, lg) ==
    [ok |-> ok, err |-> err, opid |-> op, count |-> count,
     db |-> dbx, cache |-> c, nextOp |-> nop, log |-> lg]

\* A failure return: a return inside the atomic block before any write, or
\* an exception that rolls the block back; the cache is not transactional
Failure(err, c, lg) == Result(FALSE, err, NULL, 0, db, c, nextOp, lg)

SerializeAll(S) ==
    LET s == OrderById(S) IN [i \in 1..Len(s) |-> SerializeModelInstance(s[i])]

\* the related rows of a field-value, range or all deletion: serialized, with
\* the id of the row they reference under _parent_id
WithParentId(r) ==
    LET d == SerializeModelInstance(r)
    IN [f \in DOMAIN d \cup {"_parent_id"} |-> IF f = "_parent_id" THEN r.fk ELSE d[f]]

AnnotateAll(S) ==
    LET s == OrderById(S) IN [i \in 1..Len(s) |-> WithParentId(s[i])]

\* deleted_data['manually_deleted_examples'] of a FrenchWord deletion
TrackedExamples(m, S) ==
    IF m # "FrenchWord" THEN <<>>
    ELSE LET s == OrderById(S)
         IN [i \in 1..Len(s) |->
                [model |-> "FrenchExample", data |-> SerializeModelInstance(s[i]),
                 french_word_id |-> s[i].fk]]

\* mutant: the query for other examples without .exclude(id=instance_id)
OtherExamplesWithSelf(dbx, m, fk, id) ==
    \E r \in dbx : r.model = m /\ r.fk = fk

\* delete_by_id, lines 166-169: the example is the only one of its word
OtherExamples(dbx, m, fk, id) ==
    \E r \in dbx : r.model = m /\ r.fk = fk /\ r.id # id

IsLastExample(dbx, instance) ==
    /\ instance.model = "FrenchExample"
    /\ instance.fk # NULL
    /\ ~OtherExamples(dbx, instance.model, instance.fk, instance.id)
    /\ Exists(dbx, "FrenchWord", instance.fk)

\* delete_by_id, lines 93-182: the snapshot of a single-row deletion
SnapshotById(dbx, instance) ==
    LET m == instance.model
        id == instance.id
        rel == {c \in GetRelatedModels(m) : FilterFkIn(dbx, c, {id}) # {}}
        par == {p \in GetParentModels(m) : instance.fk # NULL}
        keys == {"model", "data", "related_data", "parent_data",
                 "manually_deleted_examples"}
                \cup (IF IsLastExample(dbx, instance) THEN {"parent_to_delete"} ELSE {})
    IN [k \in keys |->
        CASE k = "model" -> m
          [] k = "data" -> SerializeModelInstance(instance)
          [] k = "related_data" ->
                [c \in rel |-> [field_name |-> "fk",
                                instances |-> SerializeAll(FilterFkIn(dbx, c, {id}))]]
          [] k = "parent_data" ->
                [p \in {q[1] : q \in par} |->
                    IF Exists(dbx, p, instance.fk)
                    THEN [field_name |-> "fk", id |-> instance.fk,
                          data |-> SerializeModelInstance(Get(dbx, p, instance.fk))]
                    ELSE [field_name |-> "fk", id |-> instance.fk]]
          [] k = "manually_deleted_examples" ->
                TrackedExamples(m, FilterFkIn(dbx, "FrenchExample", {id}))
          [] k = "parent_to_delete" ->
                [model |-> "FrenchWord",
                 data |-> SerializeModelInstance(Get(dbx, "FrenchWord", instance.fk))]]

\* mutant: the FrenchWord recorded as parent_to_delete removed, by a plain
\* DELETE, before the example
RemoveByIdParentFirst(dbx, instance, snapshot) ==
    LET m == instance.model
        db1 == DeleteRows(dbx, m, {instance.id})
        ev1 == DeleteEvents(dbx, m, {instance.id})
        orphan == /\ m = "FrenchExample"
                  /\ "parent_to_delete" \in DOMAIN snapshot
                  /\ instance.fk # NULL
                  /\ FilterFkIn(db1, m, {instance.fk}) = {}
    IN IF orphan
       THEN [db |-> DeleteRows(db1, "FrenchWord", {instance.fk}),
             log |-> <<Ev("delete", "FrenchWord", instance.fk)>> \o ev1]
       ELSE [db |-> db1, log |-> ev1]

\* delete_by_id, lines 200-216: the row goes (with its cascade), then the
\* FrenchWord recorded as parent_to_delete when no example references it
RemoveById(dbx, instance, snapshot) ==
    LET m == instance.model
        db1 == DeleteRows(dbx, m, {instance.id})
        ev1 == DeleteEvents(dbx, m, {instance.id})
        orphan == /\ m = "FrenchExample"
                  /\ "parent_to_delete" \in DOMAIN snapshot
                  /\ instance.fk # NULL
                  /\ FilterFkIn(db1, m, {instance.fk}) = {}
    IN IF orphan
       THEN [db |-> DeleteRows(db1, "FrenchWord", {instance.fk}),
             log |-> ev1 \o DeleteEvents(db1, "FrenchWord", {instance.fk})]
       ELSE [db |-> db1, log |-> ev1]

\* mutant: the rows are removed first and the snapshot is written afterwards
RemoveThenStore(snapshot, count, removed) ==
    IF ~Encodable(snapshot) THEN Failure("TypeError", cache, <<>>)
    ELSE Result(TRUE, "", nextOp, count, removed.db,
                CacheSet(cache, now, DeletionKey(nextOp), JsonDumps(snapshot), Retention),
                nextOp + 1,
                removed.log \o <<Ev("cache_set", "cache", nextOp)>>)

\* mutant: the TypeError is logged and the rows are removed all the same
StoreOrNotThenRemove(snapshot, count, removed) ==
    IF ~Encodable(snapshot)
    THEN Result(FALSE, "TypeError", NULL, 0, removed.db, cache, nextOp, removed.log)
    ELSE Result(TRUE, "", nextOp, count, removed.db,
                CacheSet(cache, now, DeletionKey(nextOp), JsonDumps(snapshot), Retention),
                nextOp + 1,
                <<Ev("cache_set", "cache", nextOp)>> \o removed.log)

\* lines 184-198 (and 326-338, 434-446, 537-549): the snapshot goes to the
\* cache under deletion_<operation id> for 3600 s, then the rows are removed;
\* a TypeError of json.dumps returns failure before either
StoreThenRemove(snapshot, count, removed) ==
    IF ~Encodable(snapshot) THEN Failure("TypeError", cache, <<>>)
    ELSE Result(TRUE, "", nextOp, count, removed.db,
                CacheSet(cache, now, DeletionKey(nextOp), JsonDumps(snapshot), Retention),
                nextOp + 1,
                <<Ev("cache_set", "cache", nextOp)>> \o removed.log)

\* DataService.delete_by_id
DeleteById(m, id_value) ==
    IF ~Exists(db, m, id_value) THEN Failure("NotFound", cache, <<>>)
    ELSE LET instance == Get(db, m, id_value)
             snapshot == SnapshotById(db, instance)
         IN StoreThenRemove(snapshot, 1, RemoveById(db, instance, snapshot))

\* lines 293-324, 396-432, 499-535: the related rows of the selected rows
RelatedData(dbx, m, ids, always_named) ==
    [c \in GetRelatedModels(m) |->
        LET inst == AnnotateAll(FilterFkIn(dbx, c, ids))
        IN IF always_named \/ Len(inst) > 0
           THEN [instances |-> inst, field_name |-> "fk"]
           ELSE [instances |-> inst]]

\* field_name + "_id" for a name that is no attribute of the model
WithIdSuffix(f) == IF f = "fk" THEN "fk_id" ELSE "unknown"

\* delete_by_field_value, lines 243-247: the field name the filter uses
ResolveField(m, f) ==
    IF ~HasAttr(m, f) /\ ~EndsWithId(f) THEN WithIdSuffix(f) ELSE f

\* model_class.objects.filter(**{field_name: field_value})
FilterBy(dbx, m, f, v) ==
    {r \in dbx : r.model = m /\ (IF f = "id" THEN r.id ELSE r.fk) = v}

\* delete_by_field_value, lines 269-280: the parent model of a foreign key
\* field given by its attname
ParentModelOfField(m, f) ==
    IF EndsWithId(f) /\ f = "fk_id" /\ m \in ChildModels THEN {RelatedModel(m)} ELSE {}

\* DataService.delete_by_field_value
DeleteByFieldValue(m, field_name, field_value, delete_related_parent) ==
    LET f == ResolveField(m, field_name) IN
    IF ~HasAttr(m, f) /\ ~EndsWithId(field_name) THEN Failure("NoField", cache, <<>>)
    ELSE IF ~HasAttr(m, f) THEN Failure("Exception", cache, <<>>)
    ELSE LET instances == FilterBy(db, m, f, field_value)
             ids == {r.id : r \in instances}
             parents == {p \in ParentModelOfField(m, f) :
                            delete_related_parent /\ Exists(db, p, field_value)}
             keys == {"model", "by_field", "instances", "related_data", "parent_data"}
                     \cup (IF parents # {} THEN {"parent_to_delete"} ELSE {})
             snapshot ==
                [k \in keys |->
                    CASE k = "model" -> m
                      [] k = "by_field" -> [field_name |-> f, field_value |-> field_value]
                      [] k = "instances" -> SerializeAll(instances)
                      [] k = "related_data" -> RelatedData(db, m, ids, TRUE)
                      [] k = "parent_data" -> <<>>
                      [] k = "parent_to_delete" ->
                            LET p == CHOOSE q \in parents : TRUE
                            IN [model |-> p,
                                data |-> SerializeModelInstance(Get(db, p, field_value))]]
             db1 == DeleteRows(db, m, ids)
             ev1 == DeleteEvents(db, m, ids)
             removed ==
                IF parents = {} THEN [db |-> db1, log |-> ev1]
                ELSE LET p == CHOOSE q \in parents : TRUE
                     IN [db |-> DeleteRows(db1, p, {field_value}),
                         log |-> ev1 \o DeleteEvents(db1, p, {field_value})]
         IN IF instances = {} THEN Failure("NotFound", cache, <<>>)
            ELSE StoreThenRemove(snapshot, Cardinality(instances), removed)

\* mutant: delete_by_id_range and delete_all without the count == 0 return
DeleteSelectionUnguarded(m, mode, instances, examples) ==
    LET ids == {r.id : r \in instances}
        snapshot ==
            [k \in {"model", mode, "instances", "related_data",
                    "manually_deleted_examples"} |->
                CASE k = "model" -> m
                  [] k = mode -> TRUE
                  [] k = "instances" -> SerializeAll(instances)
                  [] k = "related_data" -> RelatedData(db, m, ids, FALSE)
                  [] k = "manually_deleted_examples" -> TrackedExamples(m, examples)]
        removed == [db |-> DeleteRows(db, m, ids), log |-> DeleteEvents(db, m, ids)]
    IN StoreThenRemove(snapshot, Cardinality(instances), removed)

\* delete_by_id_range and delete_all, lines 369-451 and 472-554: the same
\* code but for the selection, the mode key and the tracked examples
DeleteSelection(m, mode, instances, examples) ==
    LET ids == {r.id : r \in instances}
        snapshot ==
            [k \in {"model", mode, "instances", "related_data",
                    "manually_deleted_examples"} |->
                CASE k = "model" -> m
                  [] k = mode -> TRUE
                  [] k = "instances" -> SerializeAll(instances)
                  [] k = "related_data" -> RelatedData(db, m, ids, FALSE)
                  [] k = "manually_deleted_examples" -> TrackedExamples(m, examples)]
        removed == [db |-> DeleteRows(db, m, ids), log |-> DeleteEvents(db, m, ids)]
    IN IF instances = {} THEN Failure("NotFound", cache, <<>>)
       ELSE StoreThenRemove(snapshot, Cardinality(instances), removed)

\* mutant: the range without its upper bound (id__lt for id__lte)
DeleteByIdRangeExclusive(m, start_id, end_id) ==
    DeleteSelection(m, "is_range",
        {r \in db : r.model = m /\ r.id >= start_id /\ r.id < end_id},
        {r \in db : r.model = "FrenchExample" /\ r.fk >= start_id /\ r.fk < end_id})

\* mutant: the examples of a FrenchWord range tracked by their own id
DeleteByIdRangeExamplesById(m, start_id, end_id) ==
    DeleteSelection(m, "is_range",
        {r \in db : r.model = m /\ r.id >= start_id /\ r.id <= end_id},
        {r \in db : r.model = "FrenchExample" /\ r.id >= start_id /\ r.id <= end_id})

\* DataService.delete_by_id_range
DeleteByIdRange(m, start_id, end_id) ==
    DeleteSelection(m, "is_range",
        {r \in db : r.model = m /\ r.id >= start_id /\ r.id <= end_id},
        {r \in db : r.model = "FrenchExample" /\ r.fk >= start_id /\ r.fk <= end_id})

\* mutant: the view without the exchange of the two bounds
DeleteRecordRangeAsGiven(m, start_id, end_id) ==
    DeleteByIdRange(m, start_id, end_id)

\* views.delete_record_range, lines 753-768: the bounds are exchanged when
\* start_id > end_id, then DataService.delete_by_id_range is called (it is
\* called from nowhere else)
DeleteRecordRange(m, start_id, end_id) ==
    IF start_id > end_id THEN DeleteByIdRange(m, end_id, start_id)
    ELSE DeleteByIdRange(m, start_id, end_id)

\* DataService.delete_all
DeleteAll(m) ==
    DeleteSelection(m, "is_all", Objects(db, m), Objects(db, "FrenchExample"))

\* --------------------------------------------------------- undo_deletion
\* mutant: the parent recorded as parent_to_delete saved without the check
\* for a row with its id
RestoreParentToDeleteAlways(st, d, t) ==
    IF "parent_to_delete" \notin DOMAIN d THEN st
    ELSE LET pd == d["parent_to_delete"]
             s1 == Save(st, Construct(pd.model, pd.data), t)
         IN [s1 EXCEPT !.count = @ + 1]

\* undo_deletion, lines 586-602: the row recorded as parent_to_delete is
\* recreated unless a row with its id exists
RestoreParentToDelete(st, d, t) ==
    IF "parent_to_delete" \notin DOMAIN d THEN st
    ELSE LET pd == d["parent_to_delete"]
             parent_id == GetOr(pd.data, "id", NULL)
         IN IF Exists(st.db, pd.model, parent_id) THEN st
            ELSE LET s1 == Save(st, Construct(pd.model, pd.data), t)
                 IN [s1 EXCEPT !.count = @ + 1]

\* lines 610-615 and 647-652: the primary rows, with their original ids
RECURSIVE SaveInstances(_, _, _, _, _)
SaveInstances(st, m, instances, i, t) ==
    IF i > Len(instances) THEN st
    ELSE SaveInstances(Save(st, Construct(m, instances[i]), t), m, instances, i + 1, t)

\* lines 625-638 and 659-670: a related row is recreated, with the id it had,
\* under the primary row its _parent_id names; it is left out when it names
\* none or when that row does not exist
RECURSIVE SaveAnnotated(_, _, _, _, _, _)
SaveAnnotated(st, m, c, instances, i, t) ==
    IF i > Len(instances) \/ st.failed THEN st
    ELSE LET rel == instances[i]
             parent_id == GetOr(rel, "_parent_id", NULL)
             inst == [Construct(c, Pop(rel, "_parent_id")) EXCEPT !.fk = parent_id]
             s1 == IF parent_id # NULL /\ Exists(st.db, m, parent_id)
                   THEN Save(st, inst, t) ELSE st
         IN SaveAnnotated(s1, m, c, instances, i + 1, t)

\* lines 689-693: a related row of a single-row deletion is recreated under
\* the restored row; its recorded id is popped and not set
RECURSIVE SaveUnder(_, _, _, _, _, _)
SaveUnder(st, c, new_instance, instances, i, t) ==
    IF i > Len(instances) \/ st.failed THEN st
    ELSE LET inst == [Construct(c, Pop(instances[i], "id")) EXCEPT !.fk = new_instance]
         IN SaveUnder(Save(st, inst, t), c, new_instance, instances, i + 1, t)

\* the loop over deletion_data['related_data'].items()
RECURSIVE RestoreRelated(_, _, _, _, _, _)
RestoreRelated(st, m, related, todo, single, t) ==
    IF todo = {} \/ st.failed THEN st
    ELSE LET c == CHOOSE x \in todo : TRUE
             instances == related[c].instances
             s1 == IF single THEN SaveUnder(st, c, st.last, instances, 1, t)
                   ELSE SaveAnnotated(st, m, c, instances, 1, t)
         IN RestoreRelated(s1, m, related, todo \ {c}, single, t)

\* lines 604-693: the primary rows and the related rows, by selection mode
RestorePrimary(st, d, t) ==
    LET m == d.model
        related == GetOr(d, "related_data", <<>>)
    IN IF "by_field" \in DOMAIN d \/ "is_all" \in DOMAIN d \/ "is_range" \in DOMAIN d
       THEN LET instances == GetOr(d, "instances", <<>>)
                s1 == SaveInstances([st EXCEPT !.count = @ + Len(instances)],
                                    m, instances, 1, t)
            IN RestoreRelated(s1, m, related, DOMAIN related, FALSE, t)
       ELSE LET s1 == Save([st EXCEPT !.count = @ + 1],
                           Construct(m, GetOr(d, "data", <<>>)), t)
            IN RestoreRelated(s1, m, related, DOMAIN related, TRUE, t)

\* lines 735-740: an exception raised while an example is restored is logged
\* and not raised again; what the statements before it wrote stays, and the
\* database may have aborted the transaction
Swallowed(before, raised) ==
    [before EXCEPT !.log = raised.log, !.fault = 0, !.hit = raised.hit,
                   !.aborted = raised.aborts]

\* lines 707-740: a tracked example is recreated with its id under its
\* FrenchWord, which is recreated as a row with that id and nothing else when
\* it does not exist. In an aborted transaction every statement raises, and
\* every such error is swallowed in its turn
RECURSIVE SaveExamples(_, _, _, _)
SaveExamples(st, examples, i, t) ==
    IF i > Len(examples) \/ st.failed \/ st.aborted THEN st
    ELSE LET french_word_id == examples[i].french_word_id
             s1 == IF Exists(st.db, "FrenchWord", french_word_id) THEN st
                   ELSE Save(st, Construct("FrenchWord", [id |-> french_word_id]), t)
             example == [Construct("FrenchExample", examples[i].data)
                            EXCEPT !.fk = french_word_id]
             s2 == Save(s1, example, t)
             s3 == IF s1.failed THEN Swallowed(st, s1)
                   ELSE IF s2.failed THEN Swallowed(s1, s2)
                   ELSE [s2 EXCEPT !.examples = @ + 1]
         IN SaveExamples(s3, examples, i + 1, t)

\* mutant: the tracked examples restored without the removal of the examples
\* the word has by then
RestoreTrackedKeeping(st, d, t) ==
    LET examples == GetOr(d, "manually_deleted_examples", <<>>)
    IN IF Len(examples) = 0 \/ st.failed THEN st
       ELSE SaveExamples(st, examples, 1, t)

\* lines 695-743: the tracked examples of a FrenchWord deletion; for a
\* single-row deletion the examples of the word are removed first
RestoreTracked(st, d, t) ==
    LET examples == GetOr(d, "manually_deleted_examples", <<>>)
        single == /\ d.model = "FrenchWord"
                  /\ "is_all" \notin DOMAIN d
                  /\ "is_range" \notin DOMAIN d
        instance_id == GetOr(GetOr(d, "data", <<>>), "id", NULL)
        present == FilterFkIn(st.db, "FrenchExample", {instance_id})
        ids == {r.id : r \in present}
        s1 == IF single
              THEN [st EXCEPT !.db = DeleteRows(st.db, "FrenchExample", ids),
                              !.log = @ \o DeleteEvents(st.db, "FrenchExample", ids)]
              ELSE st
    IN IF Len(examples) = 0 \/ st.failed THEN st
       ELSE SaveExamples(s1, examples, 1, t)

\* mutant: the tracked examples restored before the primary rows
RestoreTrackedFirst(st, d, t) ==
    RestorePrimary(RestoreTracked(RestoreParentToDelete(st, d, t), d, t), d, t)

\* lines 576-743: the writes of the atomic block, in their order
Restore(st, d, t) ==
    RestoreTracked(RestorePrimary(RestoreParentToDelete(st, d, t), d, t), d, t)

\* DataService.undo_deletion: the state of the transaction when it ends;
\* found is FALSE when the cache has no (unexpired) snapshot under the key
UndoDeletionIn(operation_id, tx) ==
    LET key == DeletionKey(operation_id)
        found == CacheHas(cache, now, key)
        st == IF found
              THEN Restore(tx, JsonLoads(CacheGet(cache, now, key).value), now)
              ELSE tx
    IN [found |-> found, st |-> st]

UndoDeletion(operation_id) == UndoDeletionIn(operation_id, Tx(db, nextId))

\* ---------------------------------------------------------------- system
DeleteKinds == {"delete_by_id", "delete_by_field_value", "delete_by_id_range",
                "delete_all"}
Ids == 1..MaxId
OpIds == 1..(MaxOps + 1)
FieldNames == {"fk", "fk_id", "id"}
Requested == {scope, RelatedModel(scope)}

NoArgs ==
    [id |-> NULL, field_name |-> "", field_value |-> NULL,
     delete_related_parent |-> FALSE, start_id |-> NULL, end_id |-> NULL,
     operation_id |-> NULL]

Call(kind, m, args, r, direct, origin) ==
    [kind |-> kind, model |-> m, args |-> args, ok |-> r.ok, err |-> r.err,
     opid |-> r.opid, count |-> r.count, at |-> now, direct |-> direct,
     origin |-> origin]

\* The two callers whose calls run concurrently with each other; a call of
\* theirs is idle (not made), read (it has done its reads and none of its
\* writes) or done
Callers == {"a", "b"}

NoRow == Row("", NULL, NULL, "", NULL, 0)

NoCall ==
    [phase |-> "idle", kind |-> "none", model |-> "", id |-> NULL, op |-> NULL,
     inst |-> NoRow, doc |-> <<>>, ok |-> FALSE]

\* a family of the initial database: parents 1..n, children 1..k, each child
\* under one of the parents
FamilyRows(p, c, n, k, fk, val) ==
    {Row(p, i, NULL, val, NULL, 0) : i \in 1..n}
    \cup {Row(c, j, fk[j], val, IF c = "MigrationItem" THEN j ELSE NULL, 0) : j \in 1..k}

\* the family whose rows stand by while the requests name the family of c
Bystander(c) ==
    CASE c = "FrenchExample" -> "SpanishExample"
      [] c = "SpanishExample" -> "MigrationItem"
      [] c = "MigrationItem" -> "FrenchExample"

\* Initially the family the requests name is empty or holds MaxId parents and
\* MaxId children, child j under one of the parents 1..j, and one other
\* family holds one parent with one child; the text column of the rows of the
\* requested family holds text, or in all of them a value JSON cannot encode;
\* all rows were created before the clock starts, no operation has run and
\* the cache is empty
Init ==
    /\ scope \in ChildModels
    /\ \E n \in {0, MaxId}, val \in {"text", Unencodable} :
       \E fk \in [1..n -> 1..n] :
         /\ \A j \in 1..n : fk[j] <= j
         /\ n = 0 => val = "text"
         /\ db = FamilyRows(RelatedModel(scope), scope, n, n, fk, val)
                 \cup FamilyRows(RelatedModel(Bystander(scope)), Bystander(scope),
                                 1, 1, [j \in {1} |-> 1], "text")
    /\ nextId = [m \in Models |-> MaxId + 1]
    /\ cache = <<>>
    /\ nextOp = 1
    /\ now = 1
    /\ ret = Call("none", "", NoArgs,
                  [ok |-> FALSE, err |-> "", opid |-> NULL, count |-> 0], FALSE, {})
    /\ pre = [db |-> {}, cache |-> <<>>, nextId |-> [m \in Models |-> MaxId + 1]]
    /\ log = <<>>
    /\ faulted = FALSE
    /\ calls = [p \in Callers |-> NoCall]

\* The last call failed and left the database, the sequences and the cache as
\* they were: the system is back in the state the call started from, and the
\* behaviours from there are the behaviours from that state, so they are not
\* followed a second time
Returned ==
    /\ ret.kind # "none"
    /\ ~ret.ok
    /\ db = pre.db
    /\ cache = pre.cache
    /\ nextId = pre.nextId

\* a delete operation returned r
Effect(kind, m, args, r) ==
    /\ db' = r.db
    /\ cache' = r.cache
    /\ nextOp' = r.nextOp
    /\ log' = r.log
    /\ ret' = Call(kind, m, args, r, FALSE, {})
    /\ pre' = [db |-> db, cache |-> cache, nextId |-> nextId]
    /\ faulted' = (faulted \/ \E i \in DOMAIN r.log : r.log[i].ev = "error")
    /\ UNCHANGED <<nextId, now, scope>>

\* a delete operation called while no other call is in flight returned r;
\* requests are made while an operation id remains to be drawn
Deleted(kind, m, args, r) ==
    /\ Effect(kind, m, args, r)
    /\ UNCHANGED calls

DoDeleteById ==
    /\ ~Returned
    /\ nextOp <= MaxOps
    /\ \E m \in Requested, id \in Ids :
        Deleted("delete_by_id", m, [NoArgs EXCEPT !.id = id], DeleteById(m, id))

DoDeleteByFieldValue ==
    /\ ~Returned
    /\ nextOp <= MaxOps
    /\ \E m \in Requested, f \in FieldNames, v \in Ids, p \in BOOLEAN :
        /\ f = "id" => ~p
        /\ Deleted("delete_by_field_value", m,
                [NoArgs EXCEPT !.field_name = f, !.field_value = v,
                               !.delete_related_parent = p],
                   DeleteByFieldValue(m, f, v, p))

DoDeleteByIdRange ==
    /\ ~Returned
    /\ nextOp <= MaxOps
    /\ \E m \in Requested, s \in Ids, e \in Ids :
        Deleted("delete_by_id_range", m,
                [NoArgs EXCEPT !.start_id = s, !.end_id = e],
                DeleteRecordRange(m, s, e))

DoDeleteAll ==
    /\ ~Returned
    /\ nextOp <= MaxOps
    /\ \E m \in Requested :
        Deleted("delete_all", m, NoArgs, DeleteAll(m))

\* undo_deletion returned: without a snapshot it fails; when a save raises
\* and the exception leaves the atomic block, the transaction is rolled back
\* and the snapshot stays; otherwise the snapshot is removed from the cache,
\* success is returned and the atomic block commits, which in a transaction
\* the database has aborted is a rollback
UndoEffect(op, u, model) ==
    LET ok == u.found /\ ~u.st.failed
        committed == ok /\ ~u.st.aborted
        direct == ret.kind \in DeleteKinds /\ ret.ok /\ ret.opid = op
        r == [ok |-> ok,
              err |-> IF ok THEN "" ELSE IF u.found THEN "Exception" ELSE "Expired",
              opid |-> op,
              count |-> IF ok THEN u.st.count + u.st.examples ELSE 0]
    IN /\ db' = IF committed THEN u.st.db ELSE db
       /\ nextId' = IF committed THEN u.st.nextId ELSE nextId
       /\ cache' = IF ok THEN CacheDelete(cache, DeletionKey(op)) ELSE cache
       /\ log' = IF ok THEN Append(u.st.log, Ev("cache_delete", "cache", op))
                 ELSE u.st.log
       /\ ret' = Call("undo_deletion", model,
                      [NoArgs EXCEPT !.operation_id = op], r, direct,
                      IF direct THEN pre.db ELSE {})
       /\ pre' = [db |-> db, cache |-> cache, nextId |-> nextId]
       /\ faulted' = (faulted \/ u.st.hit)
       /\ UNCHANGED <<nextOp, now, scope>>

UndoReturned(op, u) ==
    /\ UndoEffect(op, u, JsonLoads(CacheGet(cache, now, DeletionKey(op)).value).model)
    /\ UNCHANGED calls

DoUndoDeletion ==
    /\ ~Returned
    /\ \E op \in OpIds : UndoReturned(op, UndoDeletion(op))

\* one retention window passes; the clock matters only while the cache holds a
\* snapshot that has not expired
Tick ==
    /\ ~Returned
    /\ \E key \in DOMAIN cache : CacheHas(cache, now, key)
    /\ now' = now + Retention
    /\ UNCHANGED <<db, nextId, cache, nextOp, scope, ret, pre, log, faulted, calls>>

Next ==
    \/ DoDeleteById
    \/ DoDeleteByFieldValue
    \/ DoDeleteByIdRange
    \/ DoDeleteAll
    \/ DoUndoDeletion
    \/ Tick

Spec == Init /\ [][Next]_vars

\* ------------------------------------------------------- storage errors
\* The behaviours of FaultSpec are those of Spec and those in which the
\* database raises one storage error (a lock timeout, a lost connection, a
\* constraint) in one statement of one call
\* the saves of one undo_deletion: the primary rows, their related rows and
\* the tracked examples
SaveSteps == 1..(3 * MaxId)

\* mutant: the delete operations outside transaction.atomic()
StorageErrorKept(r) ==
    Result(FALSE, "Exception", NULL, 0, r.db, r.cache, r.nextOp,
           <<r.log[1], Ev("error", r.log[2].model, r.log[2].id)>>)

\* lines 221-224 (349-352, 452-455, 555-558): a row removal of a delete
\* operation that would return r raises a storage error; the exception leaves
\* the atomic block, which rolls back, and failure is returned. The cache is
\* no part of the transaction: the snapshot written before stays
StorageError(r) ==
    Result(FALSE, "Exception", NULL, 0, db, r.cache, r.nextOp,
           <<r.log[1], Ev("error", r.log[2].model, r.log[2].id)>>)

Faulted(kind, m, args, r) ==
    /\ r.ok
    /\ Deleted(kind, m, args, StorageError(r))

\* a delete operation during which instance.delete(), instances.delete() or
\* parent_instance.delete() raises
DoDeleteStorageError ==
    /\ ~Returned
    /\ ~faulted
    /\ nextOp <= MaxOps
    /\ \/ \E m \in Requested, id \in Ids :
            Faulted("delete_by_id", m, [NoArgs EXCEPT !.id = id], DeleteById(m, id))
       \/ \E m \in Requested, f \in FieldNames, v \in Ids, p \in BOOLEAN :
            /\ f = "id" => ~p
            /\ Faulted("delete_by_field_value", m,
                       [NoArgs EXCEPT !.field_name = f, !.field_value = v,
                                      !.delete_related_parent = p],
                       DeleteByFieldValue(m, f, v, p))
       \/ \E m \in Requested, s \in Ids, e \in Ids :
            Faulted("delete_by_id_range", m,
                    [NoArgs EXCEPT !.start_id = s, !.end_id = e],
                    DeleteRecordRange(m, s, e))
       \/ \E m \in Requested :
            Faulted("delete_all", m, NoArgs, DeleteAll(m))

\* delete_by_id, lines 203-216: the removal of the FrenchWord recorded as
\* parent_to_delete raises; the error is logged and not raised again, success
\* is returned and the atomic block commits: the example is gone and the word
\* is not, or, in a transaction the database has aborted, neither is
RemoveByIdParentError(dbx, instance, aborts) ==
    [db |-> IF aborts THEN dbx ELSE DeleteRows(dbx, instance.model, {instance.id}),
     log |-> DeleteEvents(dbx, instance.model, {instance.id})
             \o <<Ev("error", "FrenchWord", instance.fk)>>]

DoDeleteByIdParentError ==
    /\ ~Returned
    /\ ~faulted
    /\ nextOp <= MaxOps
    /\ "FrenchExample" \in Requested
    /\ \E id \in Ids, aborts \in BOOLEAN :
        /\ Exists(db, "FrenchExample", id)
        /\ LET instance == Get(db, "FrenchExample", id)
               snapshot == SnapshotById(db, instance)
           IN /\ IsLastExample(db, instance)
              /\ Encodable(snapshot)
              /\ Deleted("delete_by_id", "FrenchExample", [NoArgs EXCEPT !.id = id],
                         StoreThenRemove(snapshot, 1,
                                         RemoveByIdParentError(db, instance, aborts)))

\* undo_deletion during which the step-th save raises a storage error
DoUndoStorageError ==
    /\ ~Returned
    /\ ~faulted
    /\ \E op \in OpIds :
        /\ CacheHas(cache, now, DeletionKey(op))
        /\ \E step \in SaveSteps :
            LET u == UndoDeletionIn(op, [Tx(db, nextId) EXCEPT !.fault = step])
            IN /\ u.st.hit
               /\ \/ UndoReturned(op, u)
                  \/ /\ ~u.st.failed
                     /\ UndoReturned(op, UndoDeletionIn(op,
                            [Tx(db, nextId) EXCEPT !.fault = step, !.aborts = TRUE]))

FaultNext ==
    \/ Next
    \/ DoDeleteStorageError
    \/ DoDeleteByIdParentError
    \/ DoUndoStorageError

FaultSpec == Init /\ [][FaultNext]_vars

\* ------------------------------------------------------ concurrent calls
\* The behaviours of ConcSpec are those of Spec and those in which the two
\* callers call undo_deletion or delete_by_id so that the calls overlap: a
\* call does its reads (the cache.get of undo_deletion, the queries of
\* delete_by_id up to line 182) in one step and its writes, up to the commit
\* of its atomic block, in a later one; a call that would return before its
\* first write (no snapshot, no row, TypeError) is one of the calls of Spec.
\* The database runs each statement on the committed rows (READ COMMITTED).
\* The two callers make one call each, after the calls of Spec
InFlight(p) == calls[p].phase = "read"

\* the callers are alike: "b" calls once "a" has
MayCall(p) ==
    /\ calls[p].phase = "idle"
    /\ p = "b" => calls["a"].phase # "idle"

\* undo_deletion, lines 566-574: the snapshot is read from the cache
BeginUndoDeletion ==
    /\ ~Returned
    /\ \E p \in Callers, op \in OpIds :
        /\ MayCall(p)
        /\ CacheHas(cache, now, DeletionKey(op))
        /\ calls' = [calls EXCEPT ![p] =
                [NoCall EXCEPT !.phase = "read", !.kind = "undo_deletion", !.op = op,
                    !.doc = JsonLoads(CacheGet(cache, now, DeletionKey(op)).value),
                    !.model = JsonLoads(CacheGet(cache, now, DeletionKey(op)).value).model]]
        /\ UNCHANGED <<db, nextId, cache, nextOp, now, scope, ret, pre, log, faulted>>

\* undo_deletion, lines 576-753: the atomic block restores what the snapshot
\* read earlier says, on the rows as they are now, and the key is deleted
FinishUndoDeletion ==
    \E p \in Callers :
        /\ InFlight(p)
        /\ calls[p].kind = "undo_deletion"
        /\ LET u == [found |-> TRUE,
                     st |-> Restore(Tx(db, nextId), calls[p].doc, now)]
           IN /\ UndoEffect(calls[p].op, u, calls[p].model)
              /\ calls' = [calls EXCEPT ![p].phase = "done", ![p].ok = ~u.st.failed]

\* delete_by_id, lines 87-182: the row is read and the snapshot is built,
\* with parent_to_delete when no other example of the word is seen
BeginDeleteById ==
    /\ ~Returned
    /\ nextOp <= MaxOps
    /\ \E p \in Callers, m \in Requested, id \in Ids :
        /\ MayCall(p)
        /\ Exists(db, m, id)
        /\ Encodable(SnapshotById(db, Get(db, m, id)))
        /\ calls' = [calls EXCEPT ![p] =
                [NoCall EXCEPT !.phase = "read", !.kind = "delete_by_id",
                    !.model = m, !.id = id, !.inst = Get(db, m, id),
                    !.doc = SnapshotById(db, Get(db, m, id))]]
        /\ UNCHANGED <<db, nextId, cache, nextOp, now, scope, ret, pre, log, faulted>>

\* delete_by_id, lines 184-218: the snapshot is stored under a fresh
\* operation id, the row is removed and, when parent_to_delete was recorded
\* and no example references the word now, the word
FinishDeleteById ==
    \E p \in Callers :
        /\ InFlight(p)
        /\ calls[p].kind = "delete_by_id"
        /\ LET r == StoreThenRemove(calls[p].doc, 1,
                                    RemoveById(db, calls[p].inst, calls[p].doc))
           IN /\ Effect("delete_by_id", calls[p].model,
                        [NoArgs EXCEPT !.id = calls[p].id], r)
              /\ calls' = [calls EXCEPT ![p].phase = "done", ![p].ok = r.ok,
                                        ![p].op = r.opid]

\* no caller has called
Sequential == \A p \in Callers : calls[p].phase = "idle"

ConcNext ==
    \/ Sequential /\ Next
    \/ BeginUndoDeletion
    \/ FinishUndoDeletion
    \/ BeginDeleteById
    \/ FinishDeleteById

ConcSpec == Init /\ [][ConcNext]_vars

\* ---------------------------------------------------------------- claims
IsDelete == ret.kind \in DeleteKinds
IsUndo == ret.kind = "undo_deletion"

\* the snapshot the last (successful) delete operation stored
Stored == JsonLoads(cache[DeletionKey(ret.opid)].value)

\* the last call is undo_deletion(X), called right after the successful delete
\* operation that returned X, while the snapshot had not expired; ret.origin
\* is then the database before that delete and pre.db the database after it
UndoOfLastDelete ==
    /\ IsUndo
    /\ ret.direct
    /\ DeletionKey(ret.opid) \in DOMAIN pre.cache
    /\ pre.cache[DeletionKey(ret.opid)].expires > ret.at

\* the rows the undone delete had removed
Undone == ret.origin \ pre.db

\* the row is in the database with its id and its parent link
Linked(r, dbx) ==
    \E q \in dbx : q.model = r.model /\ q.id = r.id /\ q.fk = r.fk

\* C1 (as claimed): after a delete operation that succeeded with operation id
\* X and the undo_deletion(X) that follows it directly, the database equals
\* the database before the delete: the same rows with the same ids, field
\* values and parent links.
C1_RoundTrip == UndoOfLastDelete => db = ret.origin

\* C2 (as claimed): when the primary rows of the undone deletion are rows of a
\* child model and the parent of such a row exists at undo time, undo_deletion
\* succeeds and the row is back with its id and its foreign key.
C2_PrimaryRelinked ==
    (UndoOfLastDelete /\ ret.model \in ChildModels) =>
        \A r \in Undone :
            (r.model = ret.model /\ Exists(pre.db, RelatedModel(ret.model), r.fk)) =>
                (ret.ok /\ Linked(r, db))

\* C3 (as claimed): delete_by_id of a parent row with n >= 1 children followed
\* by undo_deletion restores the parent with its id and every child with its
\* id, linked to the parent.
C3_ParentWithChildren ==
    (/\ UndoOfLastDelete
     /\ ret.model \in ParentModels
     /\ "data" \in DOMAIN JsonLoads(pre.cache[DeletionKey(ret.opid)].value)
     /\ \E r \in Undone : r.model \in GetRelatedModels(ret.model)) =>
        (ret.ok /\ \A r \in Undone : Linked(r, db))

\* C4: delete_by_id of a FrenchExample that is the only example of its
\* FrenchWord removes the example and the word and records the word (id and
\* fields) as parent_to_delete; when the word has another example, the example
\* goes, the word stays and no parent_to_delete is recorded.
C4_OrphanCascadeOnDelete ==
    (ret.kind = "delete_by_id" /\ ret.ok /\ ret.model = "FrenchExample") =>
        \A e \in pre.db :
            (e.model = "FrenchExample" /\ e.id = ret.args.id) =>
                LET others == {r \in pre.db : /\ r.model = "FrenchExample"
                                              /\ r.fk = e.fk /\ r.id # e.id}
                    words == {w \in pre.db : w.model = "FrenchWord" /\ w.id = e.fk}
                IN /\ e \notin db
                   /\ others = {} =>
                        /\ words \cap db = {}
                        /\ "parent_to_delete" \in DOMAIN Stored
                        /\ \A w \in words :
                             /\ Stored["parent_to_delete"].model = "FrenchWord"
                             /\ Stored["parent_to_delete"].data.id = w.id
                             /\ Stored["parent_to_delete"].data.val = w.val
                   /\ others # {} =>
                        /\ words \subseteq db
                        /\ "parent_to_delete" \notin DOMAIN Stored

\* the last example of a word was deleted by id and the word went with it
C4_Witness ==
    /\ ret.kind = "delete_by_id" /\ ret.ok /\ ret.model = "FrenchExample"
    /\ \E w \in pre.db \ db : w.model = "FrenchWord"
    /\ "parent_to_delete" \in DOMAIN Stored

\* C5 (as claimed): after delete_by_id removed the last FrenchExample of a
\* FrenchWord together with the word, one undo_deletion succeeds and both rows
\* are back, the word with its id and fields, the example with its id under
\* that word.
C5_OrphanUndo ==
    (/\ UndoOfLastDelete
     /\ ret.model = "FrenchExample"
     /\ "data" \in DOMAIN JsonLoads(pre.cache[DeletionKey(ret.opid)].value)
     /\ \E w \in Undone : w.model = "FrenchWord") =>
        /\ ret.ok
        /\ \A r \in Undone :
             \E q \in db : /\ q.model = r.model /\ q.id = r.id
                           /\ q.fk = r.fk /\ q.val = r.val

\* C6: after a successful delete operation on rows of a parent model no child
\* row references a removed parent, and every child row that was removed is
\* recorded, by its id, under related_data of the stored snapshot.
C6_CascadeCompleteness ==
    (IsDelete /\ ret.ok /\ ret.model \in ParentModels) =>
        LET gone == {r.id : r \in {x \in pre.db \ db : x.model = ret.model}}
        IN /\ \A r \in db :
                (r.model \in ChildModels /\ RelatedModel(r.model) = ret.model) =>
                    r.fk \notin gone
           /\ \A k \in pre.db \ db :
                k.model \in ChildModels =>
                    /\ k.model \in DOMAIN Stored["related_data"]
                    /\ \E i \in DOMAIN Stored["related_data"][k.model].instances :
                         Stored["related_data"][k.model].instances[i].id = k.id

\* a parent with two children was deleted, and the children with it
C6_Witness ==
    /\ IsDelete /\ ret.ok /\ ret.model \in ParentModels
    /\ Cardinality({k \in pre.db \ db : k.model \in ChildModels}) >= 2

\* C7: a delete operation writes its snapshot to the cache under
\* deletion_<operation id>, to expire 3600 s later, before it removes the first
\* row: the cache write is the first write of a successful delete, every later
\* write is a removal, and in no call a removal precedes the cache write.
C7_SnapshotBeforeRemoval ==
    IsDelete =>
        /\ ret.ok =>
             /\ Len(log) >= 2
             /\ log[1] = Ev("cache_set", "cache", ret.opid)
             /\ \A i \in 2..Len(log) : log[i].ev = "delete"
             /\ DeletionKey(ret.opid) \in DOMAIN cache
             /\ DeletionKey(ret.opid) \notin DOMAIN pre.cache
             /\ cache[DeletionKey(ret.opid)].expires = ret.at + 3600
        /\ \A i, j \in DOMAIN log :
             (i < j /\ log[i].ev = "delete") => log[j].ev # "cache_set"
        /\ db # pre.db => \E i \in DOMAIN log : log[i].ev = "cache_set"

\* a delete operation wrote its snapshot and then removed three rows
C7_Witness ==
    /\ IsDelete /\ ret.ok
    /\ Len(log) >= 4
    /\ Cardinality(pre.db \ db) >= 3

\* C8: when the rows a delete operation selects hold a value JSON cannot
\* encode, the operation returns failure, no row is removed or changed and
\* nothing is written to the cache.
C8_SerializationFailure ==
    (IsDelete /\ \E r \in pre.db : r.val = Unencodable) =>
        /\ ~ret.ok
        /\ db = pre.db
        /\ cache = pre.cache

\* a delete operation on existing rows failed on the TypeError of json.dumps
C8_Witness ==
    /\ IsDelete /\ ret.err = "TypeError"
    /\ \E r \in pre.db : r.model = ret.model /\ r.val = Unencodable

\* the rows the arguments of the last delete operation select in the database
\* before the call (the field of a field-value deletion being one the model
\* has, the bounds of a range in either order)
Selected ==
    {r \in pre.db :
        /\ r.model = ret.model
        /\ CASE ret.kind = "delete_by_id" -> r.id = ret.args.id
             [] ret.kind = "delete_by_field_value" ->
                  IF ret.args.field_name = "id" THEN r.id = ret.args.field_value
                  ELSE r.fk = ret.args.field_value
             [] ret.kind = "delete_by_id_range" ->
                  \/ ret.args.start_id <= r.id /\ r.id <= ret.args.end_id
                  \/ ret.args.end_id <= r.id /\ r.id <= ret.args.start_id
             [] OTHER -> TRUE}

ValidField ==
    ret.kind = "delete_by_field_value" =>
        (ret.args.field_name = "id" \/ ret.model \in ChildModels)

\* C9: a delete operation whose arguments select no row returns the not-found
\* failure and writes nothing: the database and the cache are unchanged.
C9_EmptySelection ==
    (IsDelete /\ ValidField /\ Selected = {}) =>
        /\ ~ret.ok
        /\ ret.err = "NotFound"
        /\ ret.count = 0
        /\ db = pre.db
        /\ cache = pre.cache

\* delete_all was called on an empty table
C9_Witness ==
    /\ ret.kind = "delete_all"
    /\ Objects(pre.db, ret.model) = {}
    /\ ~ret.ok

\* C10: undo_deletion with an operation id whose snapshot has expired, or that
\* was never issued, fails with the expired/not-found result and changes no
\* row.
C10_Expiry ==
    (/\ IsUndo
     /\ \/ DeletionKey(ret.opid) \notin DOMAIN pre.cache
        \/ pre.cache[DeletionKey(ret.opid)].expires <= ret.at) =>
        /\ ~ret.ok
        /\ ret.err = "Expired"
        /\ ret.count = 0
        /\ db = pre.db

\* undo_deletion was called after the hour, with the rows still deleted
C10_Witness ==
    /\ IsUndo
    /\ DeletionKey(ret.opid) \in DOMAIN pre.cache
    /\ pre.cache[DeletionKey(ret.opid)].expires <= ret.at
    /\ ret.err = "Expired"
    /\ \E r \in ret.origin : r \notin db

\* no row of the database before the last call holds a value JSON cannot
\* encode
AllText == \A r \in pre.db : r.val # Unencodable

C16_RangeInclusive ==
    (/\ ret.kind = "delete_by_id_range"
     /\ ret.ok
     /\ ret.args.start_id <= ret.args.end_id) =>
        LET primary == {r \in pre.db : /\ r.model = ret.model
                                       /\ ret.args.start_id <= r.id
                                       /\ r.id <= ret.args.end_id}
            below == {k \in pre.db : /\ k.model \in ChildModels
                                     /\ RelatedModel(k.model) = ret.model
                                     /\ \E r \in primary : k.fk = r.id}
        IN /\ primary # {}
           /\ db = pre.db \ (primary \cup below)
           /\ ret.count = Cardinality(primary)

\* a range of two parents went with both bounds and with the children
C16_Witness ==
    /\ ret.kind = "delete_by_id_range"
    /\ ret.ok
    /\ ret.args.start_id < ret.args.end_id
    /\ ret.count = 2
    /\ \E r \in pre.db \ db : r.model = ret.model /\ r.id = ret.args.start_id
    /\ \E r \in pre.db \ db : r.model = ret.model /\ r.id = ret.args.end_id
    /\ \E k \in pre.db \ db : k.model \in GetRelatedModels(ret.model)

\* C17 (as claimed): a successful delete_by_field_value on the foreign key of
\* a child model, named with or without the _id suffix, with
\* delete_related_parent set removes the referenced parent row and records it
\* in the snapshot; with delete_related_parent unset the parent row stays.
C17_DeleteRelatedParent ==
    (/\ ret.kind = "delete_by_field_value"
     /\ ret.ok
     /\ ret.model \in ChildModels
     /\ ret.args.field_name \in {"fk", "fk_id"}) =>
        \A w \in pre.db :
            (w.model = RelatedModel(ret.model) /\ w.id = ret.args.field_value) =>
                IF ret.args.delete_related_parent
                THEN /\ w \notin db
                     /\ "parent_to_delete" \in DOMAIN Stored
                     /\ Stored["parent_to_delete"].data.id = w.id
                ELSE w \in db

\* FrenchWords of the database before the last call that had an example then
\* and have none now
Bereft ==
    {w \in pre.db :
        /\ w.model = "FrenchWord"
        /\ \E e \in pre.db : e.model = "FrenchExample" /\ e.fk = w.id
        /\ ~\E e \in db : e.model = "FrenchExample" /\ e.fk = w.id}

\* C19 (as claimed): whichever of the four delete operations removes the last
\* examples of a FrenchWord, the word is removed in the same operation: no
\* FrenchWord that had examples before a successful deletion of FrenchExample
\* rows is left with none.
C19_OrphanPolicyEverywhere ==
    (IsDelete /\ ret.ok /\ ret.model = "FrenchExample") =>
        \A w \in Bereft : ~Exists(db, "FrenchWord", w.id)

\* C12: a successful undo_deletion(X) removes the snapshot of X from the
\* cache; an undo_deletion(X) for an issued X whose snapshot is no longer
\* there fails with the expired/not-found result and changes no row; and a
\* snapshot leaves the cache only by a successful undo_deletion of its
\* operation id (expiry apart, which hides it), unchanged until then.
C12_ConsumedOnce ==
    /\ (IsUndo /\ ret.ok) =>
          /\ DeletionKey(ret.opid) \in DOMAIN pre.cache
          /\ DeletionKey(ret.opid) \notin DOMAIN cache
    /\ (IsUndo /\ ret.opid < nextOp /\ DeletionKey(ret.opid) \notin DOMAIN pre.cache) =>
          /\ ~ret.ok
          /\ ret.err = "Expired"
          /\ db = pre.db
          /\ cache = pre.cache
    /\ \A k \in DOMAIN pre.cache \ DOMAIN cache :
          IsUndo /\ ret.ok /\ k = DeletionKey(ret.opid)
    /\ \A k \in DOMAIN pre.cache \cap DOMAIN cache : cache[k] = pre.cache[k]

\* undo_deletion was called a second time for an operation it had undone
C12_Witness ==
    /\ IsUndo
    /\ ret.opid < nextOp
    /\ DeletionKey(ret.opid) \notin DOMAIN pre.cache
    /\ ret.err = "Expired"
    /\ \E r \in db : r.created_at > 0

\* the snapshot the last undo_deletion read, when there was one to read
UndoRead ==
    /\ IsUndo
    /\ DeletionKey(ret.opid) \in DOMAIN pre.cache
    /\ pre.cache[DeletionKey(ret.opid)].expires > ret.at

Read == JsonLoads(pre.cache[DeletionKey(ret.opid)].value)

SaveRaised == \E i \in DOMAIN log : log[i].ev = "error"

\* C11 (as claimed): when the save of a row raises during undo_deletion, be
\* it the parent_to_delete row, a primary row, a related row or a tracked
\* example, undo_deletion returns failure, the database is as it was before
\* the call and the snapshot is still in the cache.
C11_PartialRestoreFailure ==
    (UndoRead /\ SaveRaised) =>
        /\ ~ret.ok
        /\ db = pre.db
        /\ cache = pre.cache

\* C13: when the snapshot undo_deletion reads records a parent_to_delete and
\* a row with its id is in the database, undo_deletion does not save that
\* row: it is left as it is, the one row with that id.
C13_AncestorGuard ==
    (UndoRead /\ "parent_to_delete" \in DOMAIN Read) =>
        LET pd == Read["parent_to_delete"]
            present == {r \in pre.db : r.model = pd.model /\ r.id = pd.data.id}
        IN present # {} =>
            /\ \A i \in DOMAIN log :
                 ~(log[i].model = pd.model /\ log[i].id = pd.data.id)
            /\ present \subseteq db
            /\ Cardinality({r \in db : r.model = pd.model /\ r.id = pd.data.id}) = 1

\* undo_deletion read a snapshot with a parent_to_delete whose row was there
C13_Witness ==
    /\ UndoRead
    /\ "parent_to_delete" \in DOMAIN Read
    /\ Exists(pre.db, Read["parent_to_delete"].model, Read["parent_to_delete"].data.id)
    /\ Len(log) >= 1

\* C14 (as claimed): no child row of the snapshot is dropped while
\* undo_deletion reports success: after a successful undo_deletion every
\* related row and every tracked example of the snapshot is in the database,
\* attached to the parent it names, and that parent (the row restored or a
\* stub created for it) is in the database.
C14_NoChildDropped ==
    (UndoRead /\ ret.ok) =>
        /\ \A c \in DOMAIN Read["related_data"] :
             \A i \in DOMAIN Read["related_data"][c].instances :
                LET rel == Read["related_data"][c].instances[i]
                    parent_id == IF "_parent_id" \in DOMAIN rel THEN rel["_parent_id"]
                                 ELSE Read["data"].id
                IN /\ Exists(db, Read.model, parent_id)
                   /\ \E q \in db : q.model = c /\ q.fk = parent_id /\ q.val = rel.val
        /\ \A i \in DOMAIN GetOr(Read, "manually_deleted_examples", <<>>) :
             LET x == Read["manually_deleted_examples"][i]
             IN /\ Exists(db, "FrenchWord", x.french_word_id)
                /\ \E q \in db : /\ q.model = "FrenchExample"
                                 /\ q.id = x.data.id
                                 /\ q.fk = x.french_word_id

\* C18: a delete operation that returns failure, whatever the reason (no row
\* found, no such field, a snapshot JSON cannot encode, a storage error while
\* rows are removed), leaves the database as it was before the call.
C18_AllOrNothing ==
    (IsDelete /\ ~ret.ok) =>
        /\ db = pre.db
        /\ nextId = pre.nextId

\* a storage error failed a delete operation that had written its snapshot
C18_Witness ==
    /\ IsDelete
    /\ ~ret.ok
    /\ SaveRaised
    /\ cache # pre.cache
    /\ \E r \in db : r.model = ret.model

\* C20: undo_deletion writes rows in the order ancestors, primary rows,
\* descendants: no row of a parent model is saved after a row of a child
\* model, and a row is saved with a foreign key only when the row it
\* references is in the database, from before or saved earlier in the call.
C20_RestoreOrder ==
    IsUndo =>
        /\ \A i, j \in DOMAIN log :
             (/\ i < j
              /\ log[i].ev = "save" /\ log[i].model \in ChildModels
              /\ log[j].ev = "save") => log[j].model \in ChildModels
        /\ \A j \in DOMAIN log :
             (log[j].ev = "save" /\ log[j].model \in ChildModels) =>
                /\ log[j].fk # NULL
                /\ \/ Exists(pre.db, RelatedModel(log[j].model), log[j].fk)
                   \/ \E i \in 1..(j - 1) :
                        /\ log[i].ev = "save"
                        /\ log[i].model = RelatedModel(log[j].model)
                        /\ log[i].id = log[j].fk

\* undo_deletion saved a parent row and then two rows that reference it
C20_Witness ==
    /\ IsUndo
    /\ ret.ok
    /\ log[1].ev = "save" /\ log[1].model \in ParentModels
    /\ Cardinality({j \in DOMAIN log : /\ log[j].ev = "save"
                                       /\ log[j].model \in ChildModels
                                       /\ log[j].fk = log[1].id}) >= 2

\* the i-th write of the last call removed the row r
Removes(i, r) == log[i].ev = "delete" /\ log[i].model = r.model /\ log[i].id = r.id

\* C21: within a delete operation no row is removed after the parent row it
\* references: a child row goes before its parent, in delete_by_id on a last
\* FrenchExample the example before its FrenchWord, in delete_by_field_value
\* with delete_related_parent the matching rows before the parent.
C21_DeleteOrder ==
    IsDelete =>
        \A i, j \in DOMAIN log :
            i < j =>
                \A p, c \in pre.db :
                    (/\ c.model \in ChildModels
                     /\ p.model = RelatedModel(c.model)
                     /\ c.fk = p.id
                     /\ Removes(i, p)) => ~Removes(j, c)

\* delete_by_id removed a last FrenchExample and then its FrenchWord
C21_Witness ==
    /\ ret.kind = "delete_by_id" /\ ret.ok /\ ret.model = "FrenchExample"
    /\ \E i, j \in DOMAIN log :
         /\ i < j
         /\ log[i] = Ev("delete", "FrenchExample", ret.args.id)
         /\ log[j].ev = "delete" /\ log[j].model = "FrenchWord"

\* C22 (as claimed): the serialized form of a row deleted by id holds the id
\* of the row and, but for its ForeignKey, the value of every other field,
\* the plain integer columns whose name ends in _id included, so that the row
\* rebuilt from it has those fields equal to the original.
C22_CaptureKeepsFields ==
    (ret.kind = "delete_by_id" /\ ret.ok) =>
        \A r \in pre.db :
            (r.model = ret.model /\ r.id = ret.args.id) =>
                /\ Stored["data"].id = r.id
                /\ \A f \in MetaFields(r.model) \ {"id", "fk"} :
                      /\ f \in DOMAIN Stored["data"]
                      /\ Stored["data"][f] = IF f = "created_at" THEN Iso(r[f]) ELSE r[f]
                /\ Construct(r.model, Stored["data"]).xid = r.xid

\* the ids of the primary rows of a snapshot of several rows
PrimaryIds(d) == {d["instances"][i].id : i \in DOMAIN d["instances"]}

\* C23: in the snapshot a successful delete_by_field_value, delete_by_id_range
\* or delete_all stores, the _parent_id of every related row and the
\* french_word_id of every tracked example is the id of a primary row of that
\* snapshot.
C23_SnapshotClosure ==
    (IsDelete /\ ret.ok /\ ret.kind # "delete_by_id") =>
        /\ \A c \in DOMAIN Stored["related_data"] :
             \A i \in DOMAIN Stored["related_data"][c].instances :
                Stored["related_data"][c].instances[i]["_parent_id"] \in PrimaryIds(Stored)
        /\ \A i \in DOMAIN GetOr(Stored, "manually_deleted_examples", <<>>) :
             Stored["manually_deleted_examples"][i].french_word_id \in PrimaryIds(Stored)

\* a range of FrenchWords was deleted that left an example of another word
C23_Witness ==
    /\ ret.kind = "delete_by_id_range" /\ ret.ok /\ ret.model = "FrenchWord"
    /\ Len(Stored["manually_deleted_examples"]) >= 1
    /\ Len(Stored["related_data"]["FrenchExample"].instances) >= 1
    /\ \E r \in db : r.model = "FrenchExample"

\* C24: after a successful undo_deletion of a FrenchWord deletion (by id, by
\* range or of all) every tracked example of the snapshot exists once, with
\* its id and under its word, and every restored word has as many examples
\* as the snapshot tracked for it.
C24_NoDuplicateExamples ==
    (/\ UndoRead /\ ret.ok
     /\ Read.model = "FrenchWord"
     /\ "manually_deleted_examples" \in DOMAIN Read) =>
        LET tracked == Read["manually_deleted_examples"]
            words == IF "data" \in DOMAIN Read THEN {Read["data"].id}
                     ELSE PrimaryIds(Read)
        IN /\ \A i \in DOMAIN tracked :
                /\ Cardinality({q \in db : /\ q.model = "FrenchExample"
                                           /\ q.id = tracked[i].data.id}) = 1
                /\ \E q \in db : /\ q.model = "FrenchExample"
                                 /\ q.id = tracked[i].data.id
                                 /\ q.fk = tracked[i].french_word_id
           /\ \A w \in words :
                Cardinality(FilterFkIn(db, "FrenchExample", {w}))
                    = Cardinality({i \in DOMAIN tracked : tracked[i].french_word_id = w})

\* the deletion by id of a FrenchWord with two examples was undone
C24_Witness ==
    /\ UndoRead /\ ret.ok
    /\ Read.model = "FrenchWord"
    /\ "data" \in DOMAIN Read
    /\ Len(Read["manually_deleted_examples"]) >= 2
    /\ Cardinality(FilterFkIn(db, "FrenchExample", {Read["data"].id})) = 2

\* the two callers have both called the operation and both calls are over
BothDone(kind) ==
    \A p \in Callers : calls[p].phase = "done" /\ calls[p].kind = kind

\* C25 (as claimed): after two undo_deletion calls with one operation id that
\* both read the snapshot, the database holds each row of the snapshot at
\* most once: one row with the id of each primary row, and under each primary
\* row no more rows of a child model than the snapshot records for it.
C25_ConcurrentUndo ==
    (BothDone("undo_deletion") /\ calls["a"].op = calls["b"].op) =>
        LET d == calls["a"].doc
            single == "data" \in DOMAIN d
            primary == IF single THEN {d["data"].id} ELSE PrimaryIds(d)
            recorded(c, w) ==
                IF single THEN Len(d["related_data"][c].instances)
                ELSE Cardinality({i \in DOMAIN d["related_data"][c].instances :
                        d["related_data"][c].instances[i]["_parent_id"] = w})
        IN \A w \in primary :
              /\ Cardinality({q \in db : q.model = d.model /\ q.id = w}) <= 1
              /\ \A c \in DOMAIN d["related_data"] :
                    Cardinality(FilterFkIn(db, c, {w})) <= recorded(c, w)

\* C26 (as claimed): after two delete_by_id calls on two FrenchExample rows of
\* one FrenchWord that both returned success, the word is not in the database
\* without an example: when the two were its last examples, it is removed.
C26_ConcurrentSiblings ==
    (/\ BothDone("delete_by_id")
     /\ \A p \in Callers : calls[p].ok /\ calls[p].model = "FrenchExample"
     /\ calls["a"].id # calls["b"].id
     /\ calls["a"].inst.fk = calls["b"].inst.fk) =>
        (FilterFkIn(db, "FrenchExample", {calls["a"].inst.fk}) = {}
            => ~Exists(db, "FrenchWord", calls["a"].inst.fk))

\* C29: a successful delete operation removes rows and changes none: the
\* selected rows, the rows that reference a selected row and at most one
\* parent row, the one a selected row references, removed by delete_by_id
\* (orphan policy) or by delete_by_field_value with delete_related_parent;
\* every other row stays as it was, and every entry the cache held is there
\* unchanged.
C29_DeleteFrame ==
    (IsDelete /\ ret.ok) =>
        LET gone == pre.db \ db
            children == {r \in gone : /\ r.model \in GetRelatedModels(ret.model)
                                      /\ \E x \in Selected : r.fk = x.id}
            parents == {r \in gone :
                          /\ ret.model \in ChildModels
                          /\ r.model = RelatedModel(ret.model)
                          /\ \E x \in Selected : x.fk = r.id
                          /\ \/ ret.kind = "delete_by_id"
                             \/ /\ ret.kind = "delete_by_field_value"
                                /\ ret.args.delete_related_parent}
        IN /\ db \subseteq pre.db
           /\ gone \subseteq (Selected \cup children \cup parents)
           /\ Cardinality(parents) <= 1
           /\ \A k \in DOMAIN pre.cache : k \in DOMAIN cache /\ cache[k] = pre.cache[k]

\* a delete operation removed rows while the cache held a snapshot and rows
\* of another family stood by
C29_Witness ==
    /\ IsDelete /\ ret.ok
    /\ db # pre.db
    /\ DOMAIN pre.cache # {}
    /\ \E r \in db : r.model \notin {ret.model, scope, RelatedModel(scope)}

\* C27 (as claimed): an entry comes into the cache only with a delete
\* operation that returns success and has removed rows: a delete operation
\* that fails, also after it wrote its snapshot, leaves no entry.
C27_NoSnapshotWithoutDeletion ==
    IsDelete =>
        \A k \in DOMAIN cache \ DOMAIN pre.cache :
            /\ ret.ok
            /\ k = DeletionKey(ret.opid)
            /\ db # pre.db

\* the rows a snapshot records as removed, as (model, id) pairs: the primary
\* rows, the related rows, the tracked examples and the parent_to_delete row
Recorded(d) ==
    (IF "data" \in DOMAIN d THEN {<<d.model, d["data"].id>>} ELSE {})
    \cup (IF "instances" \in DOMAIN d THEN {<<d.model, id>> : id \in PrimaryIds(d)} ELSE {})
    \cup UNION {{<<c, d["related_data"][c].instances[i].id>> :
                    i \in DOMAIN d["related_data"][c].instances} :
                c \in DOMAIN d["related_data"]}
    \cup {<<"FrenchExample", GetOr(d, "manually_deleted_examples", <<>>)[i].data.id>> :
            i \in DOMAIN GetOr(d, "manually_deleted_examples", <<>>)}
    \cup (IF "parent_to_delete" \in DOMAIN d
          THEN {<<d["parent_to_delete"].model, d["parent_to_delete"].data.id>>}
          ELSE {})

\* C28 (as claimed): when a delete operation returns success, no row its
\* snapshot records (primary row, related row, tracked example,
\* parent_to_delete) is in the database; an error while the orphaned
\* FrenchWord is removed is not a success.
C28_SuccessMeansRemoved ==
    (IsDelete /\ ret.ok) =>
        /\ \A x \in Recorded(Stored) : ~Exists(db, x[1], x[2])
        /\ ~SaveRaised

\* C30 (as claimed): the count a successful undo_deletion returns is the
\* number of rows it recreated: the rows that are in the database after it
\* and were not before it.
C30_RestoredCount ==
    (UndoRead /\ ret.ok) =>
        ret.count = Cardinality({r \in db : ~Exists(pre.db, r.model, r.id)})

====
